---- MODULE Spec2Model ----
(***************************************************************************)
(* A model of sncosmo/plotting.py: plot_lc, plot_param_samples and         *)
(* animate_model.  Each call is a sequential run over a frame of locals;   *)
(* the external plotting and model layers are the environment.             *)
(*                                                                         *)
(* Conventions.                                                            *)
(*  - Python floats are modelled as exact rationals <<num, den>> in lowest *)
(*    terms with den > 0, so equal values are equal tuples.                *)
(*  - None is the empty tuple, a given value v is the 1-tuple <<v>>.       *)
(*  - A Bandpass object is <<"obj", id>>; a band name is <<"name", id>>.   *)
(*  - An argument is drawn in the step that first reads it; a local that   *)
(*    is not read again is reset, which keeps the state space small.       *)
(***************************************************************************)
EXTENDS Integers, Sequences, FiniteSets, TLC

(***************************************************************************)
(* Bounds of the model.                                                    *)
(***************************************************************************)
MaxRows == 2        \* rows of the photometric table passed as data
MaxBands == 2       \* entries of the bands list passed by the caller
MaxSamples == 2     \* rows of the sample matrix of plot_param_samples
MaxWave == 12       \* band wavelengths up to MaxWave * 1000 Angstrom are coloured

(***************************************************************************)
(* Values.                                                                 *)
(***************************************************************************)
None == <<>>
Some(v) == <<v>>
IsNone(o) == o = <<>>
Val(o) == o[1]

SeqsUpTo(S, n) == UNION {[1..k -> S] : k \in 0..n}
Range(s) == {s[i] : i \in DOMAIN s}

Abs(x) == IF x < 0 THEN -x ELSE x
Min(S) == CHOOSE x \in S : \A y \in S : x <= y
Max(S) == CHOOSE x \in S : \A y \in S : y <= x

RECURSIVE GCD(_, _)
GCD(a, b) == IF b = 0 THEN a ELSE GCD(b, a % b)

\* The rational n/d (d # 0) in lowest terms.
Rat(n, d) ==
    LET s == IF d < 0 THEN -1 ELSE 1
        g == GCD(Abs(n), Abs(d))
    IN  <<(s * n) \div g, (s * d) \div g>>
R(n) == <<n, 1>>
RAdd(a, b) == Rat(a[1] * b[2] + b[1] * a[2], a[2] * b[2])
RSub(a, b) == Rat(a[1] * b[2] - b[1] * a[2], a[2] * b[2])
RMul(a, b) == Rat(a[1] * b[1], a[2] * b[2])
RDiv(a, b) == Rat(a[1] * b[2], a[2] * b[1])
RLt(a, b) == a[1] * b[2] < b[1] * a[2]
RLe(a, b) == a[1] * b[2] <= b[1] * a[2]
RIsZero(a) == a[1] = 0

(***************************************************************************)
(* The environment of plot_lc: the bandpass registry and the models.       *)
(***************************************************************************)
BandIds == {"sdssg", "sdssr", "sdssi"}
Name(id) == <<"name", id>>
Obj(id) == <<"obj", id>>
Bandpasses == {Obj(id) : id \in BandIds}

\* Band references a caller can pass: registered names, or a Bandpass object.
BandRefs == {Name(id) : id \in BandIds} \cup {Obj("sdssg")}
\* The band column of a data table holds registered names.
DataBandRefs == {Name(id) : id \in BandIds}

\* get_bandpass: a name is looked up in the registry, a Bandpass is returned as is.
get_bandpass(ref) == Obj(ref[2])

\* Bandpass.wave_eff, in Angstrom.
wave_eff(band) ==
    CASE band[2] = "sdssg" -> 4700
      [] band[2] = "sdssr" -> 6200
      [] band[2] = "sdssi" -> 7500

\* Objects that can be passed as model: two ObsModel instances and a string.
ObsModels == {"M1", "M2"}
ModelObjects == ObsModels \cup {"salt2"}
IsObsModel(m) == m \in ObsModels

\* ObsModel.bandoverlap(band).
bandoverlap(m, band) == ~(m = "M1" /\ band = Obj("sdssi"))

\* ObsModel.bandflux(band, time, zp, zpsys) at one time.
bandflux(m, band, t) ==
    (IF m = "M1" THEN 8 ELSE 5) + 2 * t + (IF band = Obj("sdssr") THEN 1 ELSE 0)

\* ObsModel.times: the time grid bandflux uses when no time is passed.
ModelTimes(m) == <<0, 1, 3>>

\* The margin matplotlib's autoscaling leaves around what a panel shows.
AutoscalePads == {0, 1}

\* Row i of a data table: its time, flux and flux error after normalize_data.
RowTime(i) == i
RowFlux(i) == 10 + 3 * i
RowFluxErr(i) == i + 1
MakeData(bandcol) ==
    [i \in DOMAIN bandcol |->
        [band |-> bandcol[i], time |-> RowTime(i), flux |-> RowFlux(i),
         fluxerr |-> RowFluxErr(i)]]

(***************************************************************************)
(* Arguments of plot_lc.                                                   *)
(***************************************************************************)
DataArgs == {None} \cup {Some(MakeData(c)) : c \in SeqsUpTo(DataBandRefs, MaxRows)}
BandsArgs == {None} \cup {Some(s) : s \in SeqsUpTo(BandRefs, MaxBands)}
\* model: None, one object, or a list (or tuple) of objects.
ModelArgs ==
    {[kind |-> "none", items |-> <<>>]}
    \cup {[kind |-> "single", items |-> <<m>>] : m \in {"M1", "salt2"}}
    \cup {[kind |-> "list", items |-> l] :
            l \in {<<>>, <<"M1", "M2">>, <<"M2", "salt2">>}}
\* offsets: None or a dict, here a set of <<key, value>> pairs with distinct keys.
OffsetsArgs ==
    {None, Some({<<Name("sdssg"), 4>>}), Some({<<Obj("sdssr"), -30>>})}
\* figtext: None, a string, or a list of strings.
FigtextArgs ==
    {[kind |-> "none", items |-> <<>>],
     [kind |-> "str", items |-> <<"title">>],
     [kind |-> "list", items |-> <<"left">>]}
FigsizeArgs == {None, Some(6)}

\* Defaults of the signature (line 21-23).
DefaultFigtextsize == 1
\* Number of grid columns and the reference wavelengths of the colour map.
NCol == 2
CmWaveBlue == 3000
CmWaveRed == 10000

VARIABLES
    fn,          \* the function being run: "none", "plot_lc", ...
    pc,          \* position in it
    err,         \* the exception it raised, "none" if none
    fig,         \* the figure of this invocation: "none", "open", "closed"
    output,      \* what the call put out: "none", "shown", "saved"
    \* plot_lc
    args,        \* the arguments as passed: which were given, and model
    requested,   \* the bands argument as passed, kept up to the layout
    data,        \* the standardized data table, None if not given
    models,      \* list of models
    bands,       \* the bands to plot
    offsets,     \* the offsets dict, None if not given
    figtext,     \* list of caption blocks
    xfigsize, yfigsize,
    nrow,
    figsize,     \* <<width, height>>, None before the layout
    figtextsize,
    pulls,
    axnum,
    panels,      \* the subplots drawn so far
    \* plot_param_samples
    samples,     \* the sample matrix, one row per draw
    weights,     \* the weight of each draw, None if not given
    avg,         \* per parameter, None before line 350
    std,         \* per parameter, None before line 352
    cells,       \* the panels of the corner plot drawn so far
    \* animate_model
    am,          \* the arguments as passed
    time_offsets,   \* per model, None before line 496
    min_time, max_time,
    time_interval,
    frames,      \* the frames the animation driver has drawn
    stillfname,  \* the still image written, None if none
    codec,       \* the codec the video was written with, None if none
    \* the colour of a band
    waves,       \* the effective wavelengths of two bands
    colours      \* their colour-map coordinates, None before line 219

lcVars == <<args, requested, data, models, bands, offsets, figtext, xfigsize,
            yfigsize, nrow, figsize, figtextsize, pulls, axnum, panels>>
psVars == <<samples, weights, avg, std, cells>>
amVars == <<am, time_offsets, min_time, max_time, time_interval, frames,
            stillfname, codec>>
colVars == <<waves, colours>>
vars == <<fn, pc, err, fig, output, lcVars, psVars, amVars, colVars>>

NoArgs ==
    [data |-> FALSE, bands |-> FALSE, model |-> [kind |-> "none", items |-> <<>>],
     offsets |-> None, figtext |-> [kind |-> "none", items |-> <<>>]]

LcIdle ==
    /\ args = NoArgs
    /\ requested = <<>>
    /\ data = None
    /\ models = <<>>
    /\ bands = {}
    /\ offsets = None
    /\ figtext = <<>>
    /\ xfigsize = None
    /\ yfigsize = None
    /\ nrow = 0
    /\ figsize = None
    /\ figtextsize = R(DefaultFigtextsize)
    /\ pulls = TRUE
    /\ axnum = 0
    /\ panels = <<>>

PsIdle ==
    /\ samples = <<>>
    /\ weights = None
    /\ avg = None
    /\ std = None
    /\ cells = <<>>

NoCall ==
    [model_or_models |-> [kind |-> "list", items |-> <<>>], fps |-> 0, length |-> 0,
     time_range |-> <<None, None>>, disp_range |-> <<None, None>>,
     match_refphase |-> TRUE, match_flux |-> TRUE, fname |-> None]

AmIdle ==
    /\ am = NoCall
    /\ time_offsets = None
    /\ min_time = None
    /\ max_time = None
    /\ time_interval = None
    /\ frames = <<>>
    /\ stillfname = None
    /\ codec = None

Idle ==
    /\ fn = "none"
    /\ pc = "idle"
    /\ err = "none"
    /\ fig = "none"
    /\ output = "none"
    /\ LcIdle
    /\ PsIdle
    /\ AmIdle

Init ==
    /\ Idle
    /\ waves = <<>>
    /\ colours = None

(***************************************************************************)
(* plot_lc, lines 112-144: validation, the model list, band selection.     *)
(***************************************************************************)
\* lines 118-123
ModelList(model) == model.items

\* The requested bands taken as they are, in the data or not.
SelectRequested(d, b) ==
    IF IsNone(b)
    THEN {get_bandpass(Val(d)[i].band) : i \in DOMAIN Val(d)}
    ELSE {get_bandpass(x) : x \in Range(Val(b))}

\* lines 132-143: the bands to plot.  list(set) has no defined order; the
\* loop of line 216 sorts it, so the list is kept as the set of its elements.
SelectBands(d, b) ==
    IF IsNone(d)
    THEN {get_bandpass(x) : x \in Range(Val(b))}
    ELSE LET data_bands == [i \in DOMAIN Val(d) |-> get_bandpass(Val(d)[i].band)]
             unique_data_bands == Range(data_bands)
         IN  IF IsNone(b)
             THEN unique_data_bands
             ELSE {get_bandpass(x) : x \in Range(Val(b))} \cap unique_data_bands

PlotLc(d, model, b) ==
    /\ UNCHANGED <<psVars, amVars, colVars>>
    /\ pc = "idle"
    /\ fn' = "plot_lc"
    /\ args' = [NoArgs EXCEPT !.data = ~IsNone(d), !.bands = ~IsNone(b), !.model = model]
    /\ requested' = IF IsNone(b) THEN <<>> ELSE Val(b)
    /\ data' = d
    /\ UNCHANGED <<fig, output>>
    /\ UNCHANGED <<offsets, figtext, xfigsize, yfigsize, nrow, figsize,
                   figtextsize, pulls, axnum, panels>>
    /\ IF IsNone(d) /\ model.kind = "none"
       THEN /\ pc' = "raised" /\ err' = "ValueError"
            /\ UNCHANGED <<models, bands>>
       ELSE IF IsNone(d) /\ IsNone(b)
       THEN /\ pc' = "raised" /\ err' = "ValueError"
            /\ UNCHANGED <<models, bands>>
       ELSE IF ~(\A i \in DOMAIN ModelList(model) : IsObsModel(ModelList(model)[i]))
       THEN /\ pc' = "raised" /\ err' = "TypeError"
            /\ models' = ModelList(model)
            /\ UNCHANGED bands
       ELSE /\ pc' = "selected" /\ err' = "none"
            /\ models' = ModelList(model)
            /\ bands' = SelectBands(d, b)

Call_plot_lc ==
    /\ pc = "idle"
    /\ \E d \in DataArgs, model \in ModelArgs, b \in BandsArgs : PlotLc(d, model, b)

(***************************************************************************)
(* plot_lc, lines 146-152: offsets; lines 154-200: caption text, grid and   *)
(* figure size.                                                            *)
(***************************************************************************)
DictKeys(d) == {p[1] : p \in d}
DictGet(d, k) == (CHOOSE p \in d : p[1] = k)[2]

\* lines 147-152: keys become Bandpass objects, every plotted band gets an
\* entry.  The dict is the caller's object and is changed in place.
NormalizeOffsets(d, bs) ==
    LET keyed == {<<get_bandpass(p[1]), p[2]>> : p \in d}
    IN  keyed \cup {<<b, 0>> : b \in bs \ DictKeys(keyed)}

\* lines 159-180: the caption blocks; one model adds its parameters in two
\* columns.  None and a string are replaced by a new list (lines 160, 162); a
\* list is the caller's object, and lines 178-179 append to it.
BuildFigtext(ft, ms) ==
    IF Len(ms) = 1 THEN ft.items \o <<"params-left", "params-right">> ELSE ft.items

\* lines 183-185
NSubplots(bs) == Cardinality(bs)
NRow(nsubplots) == (nsubplots - 1) \div NCol + 1

\* lines 187-194, for the three modes that do not raise at once.  The
\* height-only mode divides by nrow.
FigsizeDefault(nr) == <<R(4 * NCol), R(3 * nr)>>
FigsizeFromX(nr, x) ==
    <<R(x), RMul(RDiv(RMul(Rat(3, 4), R(nr)), R(NCol)), R(x))>>
FigsizeFromY(nr, y) ==
    <<RMul(RDiv(RMul(Rat(4, 3), R(NCol)), R(nr)), R(y)), R(y)>>

SetOffsets(o) ==
    /\ UNCHANGED <<psVars, amVars, colVars>>
    /\ fn = "plot_lc" /\ pc = "selected"
    /\ pc' = "offsets"
    /\ offsets' = IF IsNone(o) THEN None ELSE Some(NormalizeOffsets(Val(o), bands))
    /\ requested' = <<>>
    /\ args' = [args EXCEPT !.offsets = o]
    /\ UNCHANGED <<fn, err, fig, output, data, models, bands, figtext,
                   xfigsize, yfigsize, nrow, figsize, figtextsize, pulls, axnum,
                   panels>>

Step_offsets == pc = "selected" /\ \E o \in OffsetsArgs : SetOffsets(o)

Layout(ft, x, y) ==
    /\ UNCHANGED <<psVars, amVars, colVars>>
    /\ fn = "plot_lc" /\ pc = "offsets"
    /\ LET text == BuildFigtext(ft, models)
           nr == NRow(NSubplots(bands))
           base == IF IsNone(x) /\ IsNone(y) THEN FigsizeDefault(nr)
                   ELSE IF IsNone(y) THEN FigsizeFromX(nr, Val(x))
                   ELSE FigsizeFromY(nr, Val(y))
       IN  /\ figtext' = text
           /\ args' = [args EXCEPT !.figtext = ft]
           /\ xfigsize' = x
           /\ yfigsize' = y
           /\ nrow' = nr
           /\ IF ~IsNone(x) /\ ~IsNone(y)
              THEN /\ pc' = "raised" /\ err' = "ValueError"
                   /\ UNCHANGED <<figsize, figtextsize>>
              ELSE IF IsNone(x) /\ ~IsNone(y) /\ nr = 0
              THEN /\ pc' = "raised" /\ err' = "ZeroDivisionError"
                   /\ UNCHANGED <<figsize, figtextsize>>
              ELSE /\ pc' = "laidout" /\ err' = "none"
                   /\ IF Len(text) > 0
                      THEN /\ figsize' = Some(<<base[1], RAdd(base[2], figtextsize)>>)
                           /\ figtextsize' = figtextsize
                      ELSE /\ figsize' = Some(base)
                           /\ figtextsize' = R(0)
    /\ UNCHANGED <<fn, fig, output, requested, data, models, bands, offsets,
                   pulls, axnum, panels>>

Step_layout ==
    /\ pc = "offsets"
    /\ \E ft \in FigtextArgs, x \in FigsizeArgs, y \in FigsizeArgs : Layout(ft, x, y)

(***************************************************************************)
(* plot_lc, lines 202-212: the figure is created and the caption written.  *)
(***************************************************************************)
CreateFigure(p) ==
    /\ UNCHANGED <<psVars, amVars, colVars>>
    /\ fn = "plot_lc" /\ pc = "laidout"
    /\ fig' = "open"
    /\ pc' = "drawing"
    /\ pulls' = p
    /\ axnum' = 0
    /\ panels' = <<>>
    /\ xfigsize' = None
    /\ yfigsize' = None
    /\ UNCHANGED <<fn, err, output, args, requested, data, models, bands, offsets,
                   figtext, nrow, figsize, figtextsize>>

Step_figure == \E p \in BOOLEAN : CreateFigure(p)

(***************************************************************************)
(* plot_lc, lines 214-311: one pass of the loop over the bands.            *)
(***************************************************************************)
\* line 216: sorted(zip(waves, bands)); the registry's wavelengths differ.
RECURSIVE SortedBands(_)
SortedBands(bs) ==
    IF bs = {} THEN <<>>
    ELSE LET b == CHOOSE x \in bs : \A z \in bs : wave_eff(x) <= wave_eff(z)
         IN  <<b>> \o SortedBands(bs \ {b})

\* The coordinate measured from the blue end instead.
ColourFromBlue(wave) == Rat(wave - CmWaveBlue, CmWaveRed - CmWaveBlue)

\* lines 219-220: the colour-map coordinate of a wavelength.
ColourCoord(wave) == Rat(CmWaveRed - wave, CmWaveRed - CmWaveBlue)

\* line 233: the rows of the band, in table order.
RECURSIVE BandRows(_, _, _)
BandRows(rows, band, i) ==
    IF i > Len(rows) THEN <<>>
    ELSE (IF get_bandpass(rows[i].band) = band THEN <<i>> ELSE <<>>)
         \o BandRows(rows, band, i + 1)

\* lines 250-252: the models that overlap the band get a curve.
RECURSIVE Curves(_, _, _)
Curves(ms, band, i) ==
    IF i > Len(ms) THEN <<>>
    ELSE (IF bandoverlap(ms[i], band) THEN <<ms[i]>> ELSE <<>>)
         \o Curves(ms, band, i + 1)

\* lines 257-258 and 300-301: the offset added to the model flux of a band.
OffsetOf(offs, band) ==
    IF ~IsNone(offs) /\ band \in DictKeys(Val(offs)) THEN DictGet(Val(offs), band) ELSE 0

\* lines 254-258, 263-264: the least and greatest flux of a model's curve
\* in the band, offset included.
CurveFluxes(m, band, offs) ==
    {bandflux(m, band, ModelTimes(m)[k]) + OffsetOf(offs, band) :
        k \in DOMAIN ModelTimes(m)}

\* line 269: the limits matplotlib has autoscaled to the error bars of line
\* 243 and the curves of line 260, with a margin.
AutoYlim(rows, d, curves, band, offs, pad) ==
    LET shown == UNION {{Val(d)[rows[k]].flux - Val(d)[rows[k]].fluxerr,
                         Val(d)[rows[k]].flux + Val(d)[rows[k]].fluxerr} :
                            k \in DOMAIN rows}
                 \cup UNION {CurveFluxes(curves[k], band, offs) : k \in DOMAIN curves}
    IN  <<Min(shown) - pad, Max(shown) + pad>>

\* lines 270-271: the new limits.
ClampYlim(ymin, ymax, mflux_min, mflux_max) ==
    LET newmax == Min({ymax, 2 * mflux_max})
    IN  <<Max({ymin, mflux_min - (newmax - mflux_max)}), newmax>>

\* lines 266-272: the limits of a panel in which a curve was drawn.
SetYlim(rows, d, curves, band, offs, pad) ==
    LET auto == AutoYlim(rows, d, curves, band, offs, pad)
        fluxes == UNION {CurveFluxes(curves[k], band, offs) : k \in DOMAIN curves}
        mflux_min == Min(fluxes)
        mflux_max == Max(fluxes)
        new == ClampYlim(auto[1], auto[2], mflux_min, mflux_max)
    IN  [ymin |-> auto[1], ymax |-> auto[2],
         mflux_min |-> mflux_min, mflux_max |-> mflux_max,
         newymin |-> new[1], newymax |-> new[2]]

\* lines 294-295
HasPulls(p, d, ms, band) ==
    p /\ ~IsNone(d) /\ Len(ms) = 1 /\ bandoverlap(ms[1], band)

\* lines 299-302: the pull of one data row.
FluxPull(row, m, band, offs) ==
    LET mflux == bandflux(m, band, row.time) + OffsetOf(offs, band)
    IN  Rat(row.flux - mflux, row.fluxerr)

DrawBand(ok, pad) ==
    /\ UNCHANGED <<psVars, amVars, colVars>>
    /\ fn = "plot_lc" /\ pc = "drawing"
    /\ axnum < Cardinality(bands)
    /\ LET band == SortedBands(bands)[axnum + 1]
           idx == IF IsNone(data) THEN <<>> ELSE BandRows(Val(data), band, 1)
           curves == Curves(models, band, 1)
           withpulls == HasPulls(pulls, data, models, band)
           evaluates == Len(curves) > 0 \/ withpulls
           panel == [band |-> band,
                     axnum |-> axnum + 1,
                     colour |-> ColourCoord(wave_eff(band)),
                     rows |-> idx,
                     curves |-> curves,
                     ylim |-> IF Len(curves) > 0
                              THEN Some(SetYlim(idx, data, curves, band, offsets, pad))
                              ELSE None,
                     haspulls |-> withpulls,
                     fluxpulls |-> IF withpulls
                                   THEN [k \in DOMAIN idx |->
                                          FluxPull(Val(data)[idx[k]], models[1], band, offsets)]
                                   ELSE <<>>]
       IN  /\ ok \in (IF evaluates THEN BOOLEAN ELSE {TRUE})
           /\ pad \in (IF ok /\ Len(curves) > 0 THEN AutoscalePads ELSE {0})
           /\ IF ok
              THEN /\ axnum' = axnum + 1
                   /\ panels' = Append(panels, panel)
                   /\ UNCHANGED <<pc, err>>
              ELSE \* a bandflux call raised: the error leaves plot_lc
                   /\ pc' = "raised" /\ err' = "ModelError"
                   /\ axnum' = axnum + 1
                   /\ UNCHANGED panels
    /\ UNCHANGED <<fn, fig, output, args, requested, data, models, bands, offsets,
                   figtext, xfigsize, yfigsize, nrow, figsize, figtextsize, pulls>>

Step_band == \E ok \in BOOLEAN, pad \in AutoscalePads : DrawBand(ok, pad)

(***************************************************************************)
(* plot_lc, lines 313-319: layout, show or save, close.                    *)
(***************************************************************************)
FnameArgs == {None, Some("out.png")}

\* A return that leaves the figure as it is.
KeepFigure(f) == f

\* lines 319 and 430: plt.close() closes the current figure.
Close(f) == "closed"

Finish(fname, ok) ==
    /\ UNCHANGED <<psVars, amVars, colVars>>
    /\ fn = "plot_lc" /\ pc = "drawing"
    /\ axnum = Cardinality(bands)
    /\ IF RIsZero(Val(figsize)[2])
       THEN \* line 313: figtextsize / figsize[1]
            /\ pc' = "raised" /\ err' = "ZeroDivisionError"
            /\ UNCHANGED <<fig, output>>
       ELSE IF ~ok
       THEN \* show or savefig raised
            /\ pc' = "raised" /\ err' = "OutputError"
            /\ UNCHANGED <<fig, output>>
       ELSE /\ pc' = "returned" /\ err' = "none"
            /\ output' = IF IsNone(fname) THEN "shown" ELSE "saved"
            /\ fig' = Close(fig)
    /\ UNCHANGED <<fn, lcVars>>

Step_finish == \E fname \in FnameArgs, ok \in BOOLEAN : Finish(fname, ok)

(***************************************************************************)
(* plot_param_samples.  A standard deviation is kept as the number under   *)
(* its square root: Sqrt(v) is the non-negative root of v, and nan when v  *)
(* is negative.                                                            *)
(***************************************************************************)
ParamNames == <<"a", "b">>
SampleValues == {0, 1, 3}
WeightValues == {R(0), Rat(1, 2), R(1)}

SamplesArgs == UNION {[1..n -> [1..Len(ParamNames) -> SampleValues]] : n \in 1..MaxSamples}
WeightsArgs(n) == {None} \cup {Some(w) : w \in [1..n -> WeightValues]}

Sqrt(v) == [sq |-> v, nan |-> RLt(v, R(0))]
\* c * Sqrt(v) for c >= 0
Scaled(c, s) == [sq |-> RMul(R(c * c), s.sq), nan |-> s.nan]

RECURSIVE RSum(_)
RSum(s) == IF s = <<>> THEN R(0) ELSE RAdd(Head(s), RSum(Tail(s)))

Column(m, i) == [k \in DOMAIN m |-> R(m[k][i])]

\* line 350: np.average(samples, weights=weights, axis=0), one column
Average(col, w) ==
    IF IsNone(w)
    THEN RDiv(RSum(col), R(Len(col)))
    ELSE RDiv(RSum([k \in DOMAIN col |-> RMul(Val(w)[k], col[k])]), RSum(Val(w)))

\* line 352: np.std(samples, axis=0), one column
StdUnweighted(col) ==
    LET m == RDiv(RSum(col), R(Len(col)))
    IN  Sqrt(RDiv(RSum([k \in DOMAIN col |->
                          RMul(RSub(col[k], m), RSub(col[k], m))]), R(Len(col))))

\* lines 354-355: np.sqrt(np.sum(weights[:, np.newaxis] * samples**2) - avg**2)
StdWeighted(col, w, a) ==
    Sqrt(RSub(RSum([k \in DOMAIN col |-> RMul(w[k], RMul(col[k], col[k]))]),
              RMul(a, a)))

\* lines 362 and 364: (avg - 5*std, avg + 5*std)
Lims(a, sd) == [centre |-> a, half |-> Scaled(5, sd)]

PlotParamSamples(smp, w) ==
    /\ UNCHANGED <<amVars, colVars>>
    /\ pc = "idle"
    /\ fn' = "plot_param_samples"
    /\ samples' = smp
    /\ weights' = w
    /\ cells' = <<>>
    /\ UNCHANGED <<fig, output, lcVars>>
    /\ IF ~IsNone(w) /\ RIsZero(RSum(Val(w)))
       THEN \* np.average: the weights sum to zero
            /\ pc' = "raised" /\ err' = "ZeroDivisionError"
            /\ UNCHANGED <<avg, std>>
       ELSE LET a == [i \in DOMAIN ParamNames |-> Average(Column(smp, i), w)]
            IN  /\ pc' = "stats" /\ err' = "none"
                /\ avg' = Some(a)
                /\ std' = Some([i \in DOMAIN ParamNames |->
                                  IF IsNone(w) THEN StdUnweighted(Column(smp, i))
                                  ELSE StdWeighted(Column(smp, i), Val(w), a[i])])

Call_plot_param_samples ==
    /\ pc = "idle"
    /\ \E smp \in SamplesArgs : \E w \in WeightsArgs(Len(smp)) : PlotParamSamples(smp, w)

\* lines 357-359
CornerFigure ==
    /\ UNCHANGED <<amVars, colVars>>
    /\ fn = "plot_param_samples" /\ pc = "stats"
    /\ fig' = "open"
    /\ pc' = "drawing"
    /\ UNCHANGED <<fn, err, output, lcVars, psVars>>

\* lines 361 and 363: the panels in drawing order, <<i, j>> with i <= j.
RECURSIVE CellOrder(_, _, _)
CellOrder(npar, j, i) ==
    IF j > npar THEN <<>>
    ELSE IF i > j THEN CellOrder(npar, j + 1, 1)
    ELSE << <<i, j>> >> \o CellOrder(npar, j, i + 1)

\* lines 361-422: one panel.  Its x window is that of column i; off the
\* diagonal its y window is that of column j, on the diagonal the y axis is
\* the autoscaled histogram height times 1.2.
DrawCell(ok) ==
    /\ UNCHANGED <<amVars, colVars>>
    /\ fn = "plot_param_samples" /\ pc = "drawing"
    /\ Len(cells) < Len(CellOrder(Len(ParamNames), 1, 1))
    /\ LET c == CellOrder(Len(ParamNames), 1, 1)[Len(cells) + 1]
           i == c[1]
           j == c[2]
           xlims == Lims(Val(avg)[i], Val(std)[i])
           ylims == Lims(Val(avg)[j], Val(std)[j])
       IN  IF ok
           THEN /\ cells' = Append(cells, [i |-> i, j |-> j, xlim |-> xlims,
                                           ylim |-> IF i = j THEN None ELSE Some(ylims)])
                /\ UNCHANGED <<pc, err>>
           ELSE \* hist, histogram2d or contour raised
                /\ pc' = "raised" /\ err' = "PlotError"
                /\ UNCHANGED cells
    /\ UNCHANGED <<fn, fig, output, lcVars, samples, weights, avg, std>>

Step_cell == \E ok \in BOOLEAN : DrawCell(ok)

\* lines 424-430
CornerFinish(fname, ok) ==
    /\ UNCHANGED <<amVars, colVars>>
    /\ fn = "plot_param_samples" /\ pc = "drawing"
    /\ Len(cells) = Len(CellOrder(Len(ParamNames), 1, 1))
    /\ IF ~ok
       THEN /\ pc' = "raised" /\ err' = "OutputError"
            /\ UNCHANGED <<fig, output>>
       ELSE /\ pc' = "returned" /\ err' = "none"
            /\ output' = IF IsNone(fname) THEN "shown" ELSE "saved"
            /\ fig' = Close(fig)
    /\ UNCHANGED <<fn, lcVars, psVars>>

Step_cornerfinish == \E fname \in FnameArgs, ok \in BOOLEAN : CornerFinish(fname, ok)

(***************************************************************************)
(* animate_model.  Line 493 calls get_model, a name that plotting.py       *)
(* neither imports nor defines (lines 5-13 and 15): the lookup raises      *)
(* NameError as soon as the list comprehension reaches its first element.  *)
(***************************************************************************)
\* The names bound in the module's namespace, lines 5-17, 21, 322 and 432.
ModuleGlobals ==
    {"math", "np", "isiterable", "ObsModel", "get_bandpass", "get_magsystem",
     "standardize_data", "normalize_data", "value_error_str", "_model_ls",
     "plot_lc", "plot_param_samples", "animate_model"}
IsBound(name) == name \in ModuleGlobals

ModelOrModelsArgs ==
    {[kind |-> "str", items |-> <<"salt2">>]}
    \cup {[kind |-> "list", items |-> l] :
            l \in {<<>>, <<"salt2">>, <<"salt2", "hsiao">>}}
FpsArgs == {0, 2}
LengthArgs == {2}
TimeRangeArgs == {<<None, None>>, <<Some(0), None>>, <<Some(0), Some(4)>>}
DispRangeArgs == {<<None, None>>, <<Some(2000), Some(9000)>>}

\* File names, as sequences of characters: "m.mp4", "m.webm", "m.avi", "mov"
\* and "d.d/m".
MovieMp4 == <<"m", ".", "m", "p", "4">>
MovieWebm == <<"m", ".", "w", "e", "b", "m">>
MovieAvi == <<"m", ".", "a", "v", "i">>
MovieNoDot == <<"m", "o", "v">>
MovieDirDot == <<"d", ".", "d", "/", "m">>
MovieArgs ==
    {None, Some(MovieMp4), Some(MovieWebm), Some(MovieAvi), Some(MovieNoDot),
     Some(MovieDirDot)}

AnimateArgs ==
    [model_or_models : ModelOrModelsArgs, fps : FpsArgs, length : LengthArgs,
     time_range : TimeRangeArgs, disp_range : DispRangeArgs,
     match_refphase : BOOLEAN, match_flux : BOOLEAN, fname : MovieArgs]

\* The model layer: reference phase and time grid of the built-in sources.
refphase(m) == IF m = "salt2" THEN 0 ELSE 1
times(m) == IF m = "salt2" THEN <<-2, 0, 4>> ELSE <<-1, 1, 5>>

\* lines 490-492: a string, or an object that is not iterable, becomes a
\* one-element list.
AsList(m) == m.items

\* What a run of the body binds; the fields not named keep these values.
Unbound ==
    [pc |-> "raised", err |-> "none", fig |-> "none", output |-> "none",
     time_offsets |-> None, min_time |-> None, max_time |-> None,
     time_interval |-> None, frames |-> <<>>, stillfname |-> None, codec |-> None]

\* lines 489-537 with an empty list of models: every min and max is taken
\* over an empty list.  The exception raised and the locals bound by then.
EmptyRun(a) ==
    LET tr == a.time_range
        dr == a.disp_range
        bound == [Unbound EXCEPT !.time_offsets = Some(<<>>)]
    IN  IF IsNone(tr[1]) \/ IsNone(tr[2])
        THEN [bound EXCEPT !.err = "ValueError"]                       \* 507, 509
        ELSE LET tb == [bound EXCEPT !.min_time = tr[1], !.max_time = tr[2]]
             IN  IF IsNone(dr[1]) \/ IsNone(dr[2])
                 THEN [tb EXCEPT !.err = "ValueError"]                 \* 516, 518
                 ELSE IF a.length * a.fps = 0
                 THEN [tb EXCEPT !.err = "ZeroDivisionError"]          \* 521
                 ELSE LET ib == [tb EXCEPT !.time_interval =
                                   Some(Rat(Val(tr[2]) - Val(tr[1]), a.length * a.fps))]
                      IN  IF a.match_flux
                          THEN [ib EXCEPT !.err = "IndexError"]        \* 531
                          ELSE [ib EXCEPT !.err = "ValueError"]        \* 534

\* line 493 with a list that has an element: the global get_model is looked
\* up and is not there.
UnboundNameRun == [Unbound EXCEPT !.err = "NameError"]

\* str.rfind: the highest 0-based index of the character, or -1.
rfind(s, c) ==
    LET hits == {k \in 1..Len(s) : s[k] = c}
    IN  IF hits = {} THEN -1 ELSE Max(hits) - 1

\* s[lo:hi] of Python: a negative index counts from the end, and both ends
\* are clipped to the string.
PyIndex(s, k) == IF k < 0 THEN Max({0, Len(s) + k}) ELSE Min({k, Len(s)})
Slice(s, lo, hi) ==
    IF PyIndex(s, lo) >= PyIndex(s, hi) THEN <<>>
    ELSE SubSeq(s, PyIndex(s, lo) + 1, PyIndex(s, hi))

\* lines 574-575 and 578-579.
StillFname(fname) == Slice(fname, 0, rfind(fname, ".")) \o <<".", "p", "n", "g">>
ExtOf(fname) == Slice(fname, rfind(fname, ".") + 1, Len(fname))
CodecOf(ext) ==
    IF ext = <<"m", "p", "4">> THEN "libx264"
    ELSE IF ext = <<"w", "e", "b", "m">> THEN "libvpx"
    ELSE "mpeg4"

\* lines 495-498.
TimeOffsets(ms, match_refphase) ==
    IF match_refphase
    THEN [k \in DOMAIN ms |-> refphase(ms[k]) - refphase(ms[1])]
    ELSE [k \in DOMAIN ms |-> 0]

\* lines 501-509.
MinTime(ms, offs, time_range) ==
    IF IsNone(time_range[1])
    THEN Min({times(ms[k])[1] - offs[k] : k \in DOMAIN ms})
    ELSE Val(time_range[1])
MaxTime(ms, offs, time_range) ==
    IF IsNone(time_range[2])
    THEN Max({times(ms[k])[Len(times(ms[k]))] - offs[k] : k \in DOMAIN ms})
    ELSE Val(time_range[2])

\* lines 560-565 under the driver of lines 568-570: animate(i) for
\* i = 0 .. int(fps*length) - 1, each model drawn at current_time + offset.
Frames(n, mn, ti, offs) ==
    [f \in 1..n |->
        LET current_time == RAdd(R(mn), RMul(ti, R(f - 1)))
        IN  [i |-> f - 1,
             current_time |-> current_time,
             model_times |-> [j \in DOMAIN offs |-> RAdd(current_time, R(offs[j]))]]]

\* lines 495-585 once line 493 has produced the models.  ok: the calls into
\* matplotlib that write or show the figure do not raise.
ResolvedRun(a, ok) ==
    LET ms == AsList(a.model_or_models)
        offs == TimeOffsets(ms, a.match_refphase)
        mn == MinTime(ms, offs, a.time_range)
        mx == MaxTime(ms, offs, a.time_range)
        tb == [Unbound EXCEPT !.time_offsets = Some(offs), !.min_time = Some(mn),
                              !.max_time = Some(mx)]
    IN  IF a.length * a.fps = 0
        THEN [tb EXCEPT !.err = "ZeroDivisionError"]                   \* 521
        ELSE LET ti == Rat(mx - mn, a.length * a.fps)
                 ib == [tb EXCEPT !.time_interval = Some(ti), !.fig = "open"]
             IN  IF IsNone(a.fname)
                 THEN IF ~ok
                      THEN [ib EXCEPT !.err = "OutputError"]           \* 583
                      ELSE [ib EXCEPT !.pc = "returned", !.fig = "cleared",
                                      !.output = "shown",
                                      !.frames = Frames(a.fps * a.length, mn, ti, offs)]
                 ELSE LET sb == [ib EXCEPT !.stillfname = Some(StillFname(Val(a.fname)))]
                      IN  IF ~ok
                          THEN [sb EXCEPT !.err = "OutputError"]       \* 576
                          ELSE [sb EXCEPT !.pc = "returned", !.fig = "cleared",
                                          !.output = "saved",
                                          !.codec = Some(CodecOf(ExtOf(Val(a.fname)))),
                                          !.frames = Frames(a.fps * a.length, mn, ti, offs)]

AnimateModel(a, ok) ==
    LET r == IF Len(AsList(a.model_or_models)) = 0 THEN EmptyRun(a)
             ELSE IF ~IsBound("get_model") THEN UnboundNameRun
             ELSE ResolvedRun(a, ok)
    IN  /\ pc = "idle"
        /\ fn' = "animate_model"
        /\ am' = a
        /\ pc' = r.pc
        /\ err' = r.err
        /\ fig' = r.fig
        /\ output' = r.output
        /\ time_offsets' = r.time_offsets
        /\ min_time' = r.min_time
        /\ max_time' = r.max_time
        /\ time_interval' = r.time_interval
        /\ frames' = r.frames
        /\ stillfname' = r.stillfname
        /\ codec' = r.codec
        /\ UNCHANGED <<lcVars, psVars, colVars>>

Call_animate_model ==
    pc = "idle" /\ \E a \in AnimateArgs, ok \in BOOLEAN : AnimateModel(a, ok)

(***************************************************************************)
(* The call is over: its frame is gone.                                    *)
(***************************************************************************)
Return ==
    /\ pc \in {"returned", "raised"}
    /\ fn' = "none" /\ pc' = "idle" /\ err' = "none" /\ fig' = "none"
    /\ output' = "none"
    /\ args' = NoArgs
    /\ requested' = <<>>
    /\ data' = None
    /\ models' = <<>>
    /\ bands' = {}
    /\ offsets' = None
    /\ figtext' = <<>>
    /\ xfigsize' = None
    /\ yfigsize' = None
    /\ nrow' = 0
    /\ figsize' = None
    /\ figtextsize' = R(DefaultFigtextsize)
    /\ pulls' = TRUE
    /\ axnum' = 0
    /\ panels' = <<>>
    /\ samples' = <<>>
    /\ weights' = None
    /\ avg' = None
    /\ std' = None
    /\ cells' = <<>>
    /\ am' = NoCall
    /\ time_offsets' = None
    /\ min_time' = None
    /\ max_time' = None
    /\ time_interval' = None
    /\ frames' = <<>>
    /\ stillfname' = None
    /\ codec' = None
    /\ UNCHANGED colVars

Next ==
    \/ Call_plot_lc
    \/ Step_offsets
    \/ Step_layout
    \/ Step_figure
    \/ Step_band
    \/ Step_finish
    \/ Call_plot_param_samples
    \/ CornerFigure
    \/ Step_cell
    \/ Step_cornerfinish
    \/ Call_animate_model
    \/ Return

Spec == Init /\ [][Next]_vars

(***************************************************************************)
(* Properties of plot_lc.                                                  *)
(***************************************************************************)
InPlotLc == fn = "plot_lc"

\* The four cases of the input validation, on the arguments as passed.
CaseA == ~args.data /\ args.model.kind = "none"
CaseB == ~args.data /\ ~args.bands
CaseC == \E i \in DOMAIN args.model.items : ~IsObsModel(args.model.items[i])
CaseD == ~IsNone(xfigsize) /\ ~IsNone(yfigsize)
Invalid == CaseA \/ CaseB \/ CaseC \/ CaseD

\* C1 as claimed: a call of plot_lc raises, before any figure is created, in
\* each of the cases (a) no data and no model, (b) no data and no bands, (c) a
\* model that is not an ObsModel, (d) xfigsize and yfigsize both given; and a
\* call that ends without having created a figure is in one of these cases
\* (every other call reaches figure creation).
C1_AsClaimed ==
    InPlotLc =>
        /\ Invalid => pc = "raised" /\ fig = "none"
        /\ (pc \in {"raised", "returned"} /\ fig = "none") => Invalid

\* The bands of the data table and of the request, by registry id.
PresentIds == IF IsNone(data) THEN {} ELSE {Val(data)[i].band[2] : i \in DOMAIN Val(data)}
RequestedIds == {requested[i][2] : i \in DOMAIN requested}
ChosenIds ==
    IF args.data /\ ~args.bands THEN PresentIds
    ELSE IF args.data THEN RequestedIds \cap PresentIds
    ELSE RequestedIds

C2_Selected ==
    (InPlotLc /\ pc = "selected") => bands = {Obj(id) : id \in ChosenIds}
C2_Panels ==
    (InPlotLc /\ pc \in {"drawing", "returned"}) =>
        /\ \A k \in DOMAIN panels : panels[k].band \in bands
        /\ \A k, l \in DOMAIN panels : panels[k].band = panels[l].band => k = l
        /\ (axnum = Cardinality(bands)) => {panels[k].band : k \in DOMAIN panels} = bands
C2_Kept ==
    (InPlotLc /\ pc \in {"selected", "offsets", "laidout", "drawing"}) =>
        bands' = bands \/ pc' = "idle"

\* C2: the bands that get a panel are the distinct bands of the data when no
\* bands are requested, the requested bands that are in the data when both
\* are given, and the requested bands when there is no data; each of them
\* gets exactly one panel and no other band gets one.
C2_BandSelection == [](C2_Selected /\ C2_Panels) /\ [][C2_Kept]_vars

\* A call with data and a request, one requested band missing from the data
\* and one band of the data not requested, has drawn its only panel.
C2_Witness ==
    /\ InPlotLc /\ pc = "returned"
    /\ args.data /\ args.bands
    /\ Len(panels) = 1
    /\ Cardinality(PresentIds) = 2

\* C3 as claimed: a band has a pull panel exactly when pulls is on, there is
\* data, there is exactly one model and it overlaps the band; each pull is
\* (observed flux - model flux) / flux error of the row, whatever the offsets.
C3_AsClaimed ==
    InPlotLc =>
        \A k \in DOMAIN panels :
            LET p == panels[k] IN
            /\ p.haspulls <=> (pulls /\ args.data /\ Len(models) = 1
                               /\ bandoverlap(models[1], p.band))
            /\ p.haspulls =>
                 /\ Len(p.fluxpulls) = Len(p.rows)
                 /\ \A r \in DOMAIN p.rows :
                      LET row == Val(data)[p.rows[r]] IN
                      p.fluxpulls[r] =
                          Rat(row.flux - bandflux(models[1], p.band, row.time), row.fluxerr)

\* C8 as claimed: whatever the number n of selected bands, the grid has 2
\* columns and ceil(n/2) rows, the figure size is defined in each sizing mode
\* and gives every cell a width:height ratio of 4:3 before the caption space,
\* figtextsize is added to the height exactly when there is caption text, and
\* the panels are numbered 1..n by ascending effective wavelength.
LayoutDone == InPlotLc /\ pc \in {"laidout", "raised"} /\ fig = "none" /\ ~Invalid
CaptionHeight == IF Len(figtext) > 0 THEN R(DefaultFigtextsize) ELSE R(0)
C8_AsClaimed ==
    /\ LayoutDone =>
         /\ NCol * nrow >= Cardinality(bands) /\ NCol * (nrow - 1) < Cardinality(bands)
         /\ ~IsNone(figsize)
         /\ LET w == Val(figsize)[1]
                h == RSub(Val(figsize)[2], CaptionHeight)
            IN  /\ RMul(R(3 * nrow), w) = RMul(R(4 * NCol), h)
                /\ (IsNone(xfigsize) /\ IsNone(yfigsize)) => w = R(8) /\ h = R(3 * nrow)
                /\ ~IsNone(xfigsize) => w = R(Val(xfigsize))
                /\ ~IsNone(yfigsize) => h = R(Val(yfigsize))
    /\ InPlotLc =>
         /\ \A k \in DOMAIN panels : panels[k].axnum = k
         /\ \A k, l \in DOMAIN panels :
              k < l => wave_eff(panels[k].band) <= wave_eff(panels[l].band)

\* C11 as claimed: in a panel where a model curve was drawn the new limits
\* do not widen the autoscaled ones (ymin' >= ymin, ymax' <= ymax), are in
\* order (ymin' <= ymax') and contain the whole curve (ymin' <= mflux_min,
\* mflux_max <= ymax'), whatever the sign of the model fluxes and offsets.
C11_AsClaimed ==
    InPlotLc =>
        \A k \in DOMAIN panels :
            ~IsNone(panels[k].ylim) =>
                LET y == Val(panels[k].ylim)
                IN  /\ y.newymin >= y.ymin /\ y.newymax <= y.ymax
                    /\ y.newymin <= y.newymax
                    /\ y.newymin <= y.mflux_min /\ y.mflux_max <= y.newymax

\* The objects the caller passed, as they are now: offsets is never rebound,
\* figtext is rebound only when it was None or a string.
CallerOffsets == offsets
CallerFigtext == IF args.figtext.kind = "list" THEN figtext ELSE args.figtext.items

\* C12 as claimed: when a call of plot_lc is over, by return or by raise,
\* the offsets mapping the caller passed has the keys and values it had
\* before the call, and the figtext list the caller passed has the elements
\* it had before the call.
C12_AsClaimed ==
    (InPlotLc /\ pc \in {"returned", "raised"}) =>
        /\ CallerOffsets = args.offsets
        /\ CallerFigtext = args.figtext.items

(***************************************************************************)
(* Properties of plot_param_samples.                                       *)
(***************************************************************************)
\* The weighted mean and variance of a column; no weights are equal weights.
WeightOf(k) == IF IsNone(weights) THEN R(1) ELSE Val(weights)[k]
MeanOf(i) ==
    RDiv(RSum([k \in DOMAIN samples |-> RMul(WeightOf(k), R(samples[k][i]))]),
         RSum([k \in DOMAIN samples |-> WeightOf(k)]))
VarianceOf(i) ==
    RDiv(RSum([k \in DOMAIN samples |->
                 RMul(WeightOf(k), RMul(RSub(R(samples[k][i]), MeanOf(i)),
                                        RSub(R(samples[k][i]), MeanOf(i))))]),
         RSum([k \in DOMAIN samples |-> WeightOf(k)]))
WindowOf(i) == [centre |-> MeanOf(i), half |-> Scaled(5, Sqrt(VarianceOf(i)))]

\* C4 as claimed: in every panel the x window is mean_i - 5 std_i to
\* mean_i + 5 std_i of its column i, and off the diagonal the y window is
\* that of its row's column, with the weighted mean and standard deviation
\* when weights are given, for any non-negative weights.
C4_AsClaimed ==
    fn = "plot_param_samples" =>
        \A c \in DOMAIN cells :
            /\ cells[c].xlim = WindowOf(cells[c].i)
            /\ cells[c].i # cells[c].j => cells[c].ylim = Some(WindowOf(cells[c].j))

(***************************************************************************)
(* Properties of animate_model.                                            *)
(***************************************************************************)
\* A call of animate_model on at least one model is over.
Animated == fn = "animate_model" /\ pc \in {"returned", "raised"}
                /\ Len(am.model_or_models.items) > 0
\* ... with a positive number of frames and no failure of the display or of
\* the file system.
AnimatedThrough == Animated /\ am.fps * am.length > 0 /\ err # "OutputError"
Sources == am.model_or_models.items

\* C5 as claimed: with match_refphase the time offset of model k is
\* refphase_k - refphase_0, without it every offset is 0, and every frame
\* evaluates model k at frame time + offset_k.
C5_AsClaimed ==
    Animated =>
        /\ ~IsNone(time_offsets)
        /\ DOMAIN Val(time_offsets) = DOMAIN Sources
        /\ \A k \in DOMAIN Sources :
             Val(time_offsets)[k] =
                 IF am.match_refphase THEN refphase(Sources[k]) - refphase(Sources[1])
                 ELSE 0
        /\ \A f \in DOMAIN frames : \A k \in DOMAIN Sources :
             frames[f].model_times[k] =
                 RAdd(frames[f].current_time, R(Val(time_offsets)[k]))

\* The file name split at the '.' of its last path component, if it has one.
LastComponentDot(fname) ==
    IF rfind(fname, ".") > rfind(fname, "/") THEN rfind(fname, ".") ELSE Len(fname)
ExtensionReplaced(fname) ==
    SubSeq(fname, 1, LastComponentDot(fname)) \o <<".", "p", "n", "g">>
Extension(fname) == SubSeq(fname, LastComponentDot(fname) + 2, Len(fname))

\* C9 as claimed: with a file name the codec is libx264 for the extension
\* mp4, libvpx for webm and mpeg4 for anything else, and the first frame is
\* saved under the file name with its extension replaced by .png, for every
\* file name; without a file name nothing is saved and the animation is shown.
C9_AsClaimed ==
    AnimatedThrough =>
        IF IsNone(am.fname)
        THEN output = "shown" /\ IsNone(stillfname) /\ IsNone(codec)
        ELSE /\ output = "saved"
             /\ stillfname = Some(ExtensionReplaced(Val(am.fname)))
             /\ codec = Some(IF Extension(Val(am.fname)) = <<"m", "p", "4">> THEN "libx264"
                             ELSE IF Extension(Val(am.fname)) = <<"w", "e", "b", "m">>
                             THEN "libvpx"
                             ELSE "mpeg4")

\* C10 as claimed: the driver runs the frame updates i = 0 .. N-1 with
\* N = int(fps*length); frame i is drawn at
\* min_time + i*(max_time - min_time)/(length*fps), so frame 0 is at
\* min_time, the frame times increase when max_time > min_time and none
\* reaches max_time; min_time and max_time are the bounds of time_range or,
\* for a bound that is None, the least first time and the greatest last time
\* of the models, each less the model's offset.
C10_AsClaimed ==
    AnimatedThrough =>
        /\ Len(frames) = am.fps * am.length
        /\ ~IsNone(min_time) /\ ~IsNone(max_time) /\ ~IsNone(time_offsets)
        /\ LET mn == Val(min_time)
               mx == Val(max_time)
               offs == Val(time_offsets)
           IN  /\ IF IsNone(am.time_range[1])
                  THEN /\ \E k \in DOMAIN Sources : mn = times(Sources[k])[1] - offs[k]
                       /\ \A k \in DOMAIN Sources : mn <= times(Sources[k])[1] - offs[k]
                  ELSE mn = Val(am.time_range[1])
               /\ IF IsNone(am.time_range[2])
                  THEN /\ \E k \in DOMAIN Sources : mx = times(Sources[k])[3] - offs[k]
                       /\ \A k \in DOMAIN Sources : mx >= times(Sources[k])[3] - offs[k]
                  ELSE mx = Val(am.time_range[2])
               /\ \A f \in DOMAIN frames :
                    /\ frames[f].i = f - 1
                    /\ frames[f].current_time =
                         RAdd(R(mn), Rat((f - 1) * (mx - mn), am.length * am.fps))
                    /\ mx > mn => RLt(frames[f].current_time, R(mx))
               /\ Len(frames) > 0 => frames[1].current_time = R(mn)
               /\ \A f, g \in DOMAIN frames :
                    (f < g /\ mx > mn) =>
                        RLt(frames[f].current_time, frames[g].current_time)

(***************************************************************************)
(* The figure of a call.                                                   *)
(***************************************************************************)
\* C7 as claimed: no call ends, by returning or by raising, with the figure
\* it created still open.
C7_AsClaimed == pc \in {"returned", "raised"} => fig # "open"

\* C7, amended: a call that created a figure and returns has closed it; a
\* call that raises after it created its figure leaves it open.
C7_Released ==
    /\ pc = "returned" => fig \in {"closed", "cleared"}
    /\ pc = "raised" => fig \in {"none", "open"}

\* plot_lc has drawn a panel, shown the figure and returned.
C7_Witness ==
    /\ InPlotLc /\ pc = "returned" /\ fig = "closed"
    /\ Len(panels) > 0 /\ output = "shown"

(***************************************************************************)
(* The colour of a band, lines 108-110 and 219-220, applied to the         *)
(* effective wavelengths of two bands drawn from a grid.                   *)
(***************************************************************************)
Wavelengths == {1000 * k : k \in 1..MaxWave}

InitColour ==
    /\ Idle
    /\ waves \in Wavelengths \X Wavelengths
    /\ colours = None

Colour ==
    /\ colours = None
    /\ colours' = Some(<<ColourCoord(waves[1]), ColourCoord(waves[2])>>)
    /\ UNCHANGED <<fn, pc, err, fig, output, lcVars, psVars, amVars, waves>>

SpecColour == InitColour /\ [][Colour]_vars
\* C6: the colour coordinate of a band is linear in its effective wavelength
\* and strictly decreasing, 10000 Angstrom has coordinate 0 and 3000 has
\* coordinate 1, two different wavelengths never share a coordinate, a
\* wavelength inside the range has a coordinate in [0, 1] and one outside has
\* a coordinate at or beyond the end of [0, 1] on its side.
C6_ColourCoordinate ==
    ~IsNone(colours) =>
        LET w1 == waves[1]
            w2 == waves[2]
            c1 == Val(colours)[1]
            c2 == Val(colours)[2]
        IN  /\ RSub(c1, c2) = Rat(w2 - w1, 10000 - 3000)
            /\ w1 < w2 => RLt(c2, c1)
            /\ w1 # w2 => c1 # c2
            /\ w1 = 10000 => c1 = R(0)
            /\ w1 = 3000 => c1 = R(1)
            /\ (3000 <= w1 /\ w1 <= 10000) => RLe(R(0), c1) /\ RLe(c1, R(1))
            /\ w1 >= 10000 => RLe(c1, R(0))
            /\ w1 <= 3000 => RLe(R(1), c1)

\* The coordinates of a band at the blue end of the range and of one beyond
\* its red end have been computed.
C6_Witness == ~IsNone(colours) /\ waves = <<3000, 12000>>

====
